---- MODULE Spec2Model ----
(***************************************************************************)
(* Scene archive codec of anyrender_serialize: a recorded Scene is turned  *)
(* into a SceneArchive (from_scene), written to a zip container            *)
(* (serialize), read back (deserialize) and rebound to live resources      *)
(* (to_scene).  The recording side (Scene, RecordingRenderContext) is      *)
(* modelled from anyrender/src/recording.rs.                               *)
(***************************************************************************)
EXTENDS Integers, Sequences, FiniteSets, TLC

VARIABLES
    ctx,          \* RecordingRenderContext the scene is recorded against
    scene,        \* the recorded Scene
    config,       \* SerializeConfig given to from_scene
    pc,           \* position of the caller in the pipeline
    archive,      \* result of SceneArchive::from_scene
    zip,          \* the container written by serialize (possibly altered since)
    edits,        \* number of alterations made to the container after writing
    loaded,       \* result of SceneArchive::deserialize
    restore_ctx,  \* fresh RecordingRenderContext handed to to_scene
    restored,     \* result of SceneArchive::to_scene
    write_result, \* result of SceneArchive::serialize
    next_blob_id, \* peniko's process-wide Blob id counter
    builds        \* archive builds in progress, one per caller, command by command

vars == <<ctx, scene, config, pc, archive, zip, edits, loaded, restore_ctx,
          restored, write_result, next_blob_id, builds>>

\* ------------------------------------------------------------------ bounds
MaxCmds == 2
MaxImages == 2
MaxUnregister == 1
MaxEdits == 2
MaxBuilds == 2

\* --------------------------------------------------------- program constants
CURRENT_VERSION == 1
DEFAULT_TOLERANCE == "0.1"

\* ------------------------------------------------------------ input domains
Red == <<255, 0, 0, 255>>
Green == <<0, 255, 0, 255>>

\* 1x1 images the caller registers
ImageData(data, format) ==
    [data |-> data, format |-> format, alpha_type |-> "Alpha", width |-> 1, height |-> 1]
TestImages == { ImageData(Red, "Bgra8"), ImageData(Green, "Rgba8") }

\* Font files: the bytes of a font blob, described by what the font parser,
\* the subsetter and the WOFF2 codec observe of them.
AllGlyphs == {0, 43, 50, 72, 79}
Collection ==
    [enc |-> "sfnt", name |-> "Collection", faces |-> 2, face |-> -1,
     outlines |-> AllGlyphs, len |-> 8]

\* Font blobs held by the caller (Blob identity, bytes); two blobs with the
\* same bytes are still two blobs.
CallerBlobs == { [id |-> 1, bytes |-> Collection], [id |-> 2, bytes |-> Collection] }
\* Blob ids are handed out by one process-wide counter: the next blob created
\* gets the first id no caller blob has.
FirstFreeBlobId == Cardinality(CallerBlobs) + 1

TestFonts ==
    { [data |-> b, index |-> i] : b \in CallerBlobs, i \in {0, 1} }
        \ { [data |-> [id |-> 2, bytes |-> Collection], index |-> 1] }

Glyph(id, x) == [id |-> id, x |-> x, y |-> 0]
TestGlyphs1 == <<Glyph(43, 0)>>
TestGlyphs2 == <<Glyph(72, 0), Glyph(43, 10)>>

TRANSPARENT == "transparent"
Black == "black"

Configs == [subset_fonts : BOOLEAN, woff2_fonts : BOOLEAN]

\* ------------------------------------------------------------ small helpers
Range(s) == { s[i] : i \in DOMAIN s }

NoResult == [status |-> "None"]
Ok(v) == [status |-> "Ok", val |-> v]
Err(kind, arg) == [status |-> "Err", err |-> kind, arg |-> arg]
Panic == [status |-> "Panic"]
IsOk(r) == r.status = "Ok"
IsErr(r, kind) == r.status = "Err" /\ r.err = kind

\* Callers that build archives side by side, and the state of one with no
\* build under way.
Builders == {1, 2}
Idle == [state |-> "idle", n |-> 0]
NoBuilds == [b \in Builders |-> Idle]

\* --------------------------------------------- RecordingRenderContext
NewContext == [image_data |-> << >>, next_resource_id |-> 0]

\* Bug: the ID is the number of live images, so the ID of an unregistered
\* image is handed out again.
register_image_result_reuse(c, image) ==
    [ctx |-> [image_data |->
                [k \in DOMAIN c.image_data \cup {Cardinality(DOMAIN c.image_data)} |->
                    IF k = Cardinality(DOMAIN c.image_data) THEN image ELSE c.image_data[k]],
              next_resource_id |-> c.next_resource_id + 1],
     resource |-> [id |-> Cardinality(DOMAIN c.image_data), width |-> image.width,
                   height |-> image.height]]

register_image_result(c, image) ==
    [ctx |-> [image_data |-> c.image_data @@ (c.next_resource_id :> image),
              next_resource_id |-> c.next_resource_id + 1],
     resource |-> [id |-> c.next_resource_id, width |-> image.width,
                   height |-> image.height]]

unregister_resource_result(c, id) ==
    [c EXCEPT !.image_data = [k \in (DOMAIN c.image_data) \ {id} |-> c.image_data[k]]]

\* Every ImageResource this context has issued so far (live or not).
IssuedResources(c) ==
    { [id |-> k, width |-> 1, height |-> 1] : k \in 0 .. (c.next_resource_id - 1) }

\* --------------------------------------------------------------- Scene
NewScene == [tolerance |-> DEFAULT_TOLERANCE, commands |-> << >>]

SolidBrush(color) == [tag |-> "Solid", color |-> color]
ImageBrush(image) == [tag |-> "Image", image |-> image, sampler |-> "default"]

SolidPaint(color) == [tag |-> "Solid", color |-> color]
CustomPaint == [tag |-> "Custom"]
ImagePaint(resource) == [tag |-> "Image", image |-> resource, sampler |-> "default"]

\* Bug: a custom paint is recorded as it is.
convert_paintref_passthrough(paint) ==
    CASE paint.tag = "Solid" -> SolidBrush(paint.color)
      [] paint.tag = "Image" -> ImageBrush(paint.image)
      [] paint.tag = "Custom" -> paint

convert_paintref(paint) ==
    CASE paint.tag = "Solid" -> SolidBrush(paint.color)
      [] paint.tag = "Image" -> ImageBrush(paint.image)
      [] paint.tag = "Custom" -> SolidBrush(TRANSPARENT)

FillCommand(fill, transform, brush) ==
    [kind |-> "Fill", fill |-> fill, transform |-> transform, brush |-> brush]
StrokeCommand(style, transform, brush) ==
    [kind |-> "Stroke", style |-> style, transform |-> transform, brush |-> brush]
GlyphRunCommand(font, transform, brush, glyphs) ==
    [kind |-> "GlyphRun", font_data |-> font, transform |-> transform,
     brush |-> brush, glyphs |-> glyphs]
PopLayerCommand == [kind |-> "PopLayer"]

HasBrush(cmd) == cmd.kind \in {"Fill", "Stroke", "GlyphRun"}
HasImage(cmd) == HasBrush(cmd) /\ cmd.brush.tag = "Image"
HasFont(cmd) == cmd.kind = "GlyphRun"

\* ----------------------------------------------------- hashing and codecs
\* SHA-256 is modelled as an injective digest of the hashed bytes.
sha256_hex(data) == <<"sha256", data>>

\* Bug: only the first pixel of a BGRA8 buffer is swapped.
convert_to_rgba_first_pixel(image) ==
    CASE image.format = "Rgba8" -> Ok(image.data)
      [] image.format = "Bgra8" ->
            Ok([i \in DOMAIN image.data |->
                  CASE i = 1 /\ Len(image.data) >= 4 -> image.data[3]
                    [] i = 3 /\ Len(image.data) >= 4 -> image.data[1]
                    [] OTHER -> image.data[i]])
      [] OTHER -> Err("InvalidFormat", 0)

\* Bug: a format the codec does not know is stored as if it were RGBA8.
convert_to_rgba_lenient(image) ==
    CASE image.format = "Bgra8" ->
            Ok([i \in DOMAIN image.data |->
                  CASE i % 4 = 1 /\ i + 2 <= Len(image.data) - (Len(image.data) % 4)
                          -> image.data[i + 2]
                    [] i % 4 = 3 /\ i <= Len(image.data) - (Len(image.data) % 4)
                          -> image.data[i - 2]
                    [] OTHER -> image.data[i]])
      [] OTHER -> Ok(image.data)

convert_to_rgba(image) ==
    CASE image.format = "Rgba8" -> Ok(image.data)
      [] image.format = "Bgra8" ->
            Ok([i \in DOMAIN image.data |->
                  CASE i % 4 = 1 /\ i + 2 <= Len(image.data) - (Len(image.data) % 4)
                          -> image.data[i + 2]
                    [] i % 4 = 3 /\ i <= Len(image.data) - (Len(image.data) % 4)
                          -> image.data[i - 2]
                    [] OTHER -> image.data[i]])
      [] OTHER -> Err("InvalidFormat", 0)

\* Bug: the BGRA8 arm returns the stored RGBA8 bytes without swapping back.
convert_from_rgba_noswap(rgba, target) ==
    IF target \in {"Rgba8", "Bgra8"} THEN Ok(rgba) ELSE Err("InvalidFormat", 0)

convert_from_rgba(rgba, target) ==
    CASE target = "Rgba8" -> Ok(rgba)
      [] target = "Bgra8" ->
            Ok([i \in DOMAIN rgba |->
                  CASE i % 4 = 1 /\ i + 2 <= Len(rgba) - (Len(rgba) % 4) -> rgba[i + 2]
                    [] i % 4 = 3 /\ i <= Len(rgba) - (Len(rgba) % 4) -> rgba[i - 2]
                    [] OTHER -> rgba[i]])
      [] OTHER -> Err("InvalidFormat", 0)

\* ------------------------------------------------------------- FontWriter
NewFontWriter == [id_map |-> << >>, fonts |-> << >>, glyph_ids |-> << >>]

\* Bug: the face index is part of the key whatever the configuration.
FontKey_always_face(cfg, font) == <<font.data.id, font.index>>

FontKey(cfg, font) ==
    IF cfg.subset_fonts THEN <<font.data.id, font.index>> ELSE <<font.data.id, 0>>

\* Bug: no lookup in id_map, every registration appends a font.
register_nodedup(cfg, fw, font) ==
    [fw |-> [id_map |-> fw.id_map,
             fonts |-> Append(fw.fonts, font),
             glyph_ids |-> Append(fw.glyph_ids, {})],
     id |-> Len(fw.fonts)]

register(cfg, fw, font) ==
    LET key == FontKey(cfg, font) IN
    IF key \in DOMAIN fw.id_map
    THEN [fw |-> fw, id |-> fw.id_map[key]]
    ELSE [fw |-> [id_map |-> fw.id_map @@ (key :> Len(fw.fonts)),
                  fonts |-> Append(fw.fonts, font),
                  glyph_ids |-> Append(fw.glyph_ids, {})],
          id |-> Len(fw.fonts)]

\* Bug: the glyphs of a run replace those recorded for the font so far.
record_glyphs_overwrite(cfg, fw, id, glyphs) ==
    IF cfg.subset_fonts
    THEN [fw EXCEPT !.glyph_ids[id + 1] = { g.id : g \in Range(glyphs) }]
    ELSE fw

record_glyphs(cfg, fw, id, glyphs) ==
    IF cfg.subset_fonts
    THEN [fw EXCEPT !.glyph_ids[id + 1] = @ \cup { g.id : g \in Range(glyphs) }]
    ELSE fw

face_index(cfg, font) == IF cfg.subset_fonts THEN 0 ELSE font.index

\* FontRef::from_index: the bytes must be an sfnt with that face.
FontRefFromIndex(bytes, index) ==
    IF bytes.enc = "sfnt" /\ index < bytes.faces THEN Ok(bytes) ELSE Err("FontProcessing", 0)

\* Bug: the subsetter runs without RETAIN_GIDS and packs the kept glyphs into
\* the first slots.
subset_font_compact(bytes, index, gids) ==
    [enc |-> "sfnt", name |-> bytes.name, faces |-> 1, face |-> index,
     outlines |-> 0 .. (Cardinality((gids \cup {0}) \cap bytes.outlines) - 1),
     len |-> 1 + Cardinality((gids \cup {0}) \cap bytes.outlines)]

\* klippa::subset_font with SUBSET_FLAGS_RETAIN_GIDS: a standalone font of the
\* one face whose glyph slots keep their ids; only the requested glyphs (and
\* .notdef) keep an outline.
subset_font(bytes, index, gids) ==
    [enc |-> "sfnt", name |-> bytes.name, faces |-> 1, face |-> index,
     outlines |-> (gids \cup {0}) \cap bytes.outlines,
     len |-> 1 + Cardinality((gids \cup {0}) \cap bytes.outlines)]

\* ttf2woff2::encode_no_transform (it reads the sfnt table directory of its
\* input) / wuff::decompress_woff2
encode_woff2(raw) ==
    IF raw.enc = "sfnt"
    THEN Ok([enc |-> "wOF2", inner |-> raw, len |-> raw.len - 1])
    ELSE Err("FontProcessing", 0)
starts_with_wOF2(data) == data.enc = "wOF2"
decompress_woff2(data) ==
    IF "inner" \in DOMAIN data THEN Ok(data.inner) ELSE Err("FontProcessing", 0)

\* Bug: the digest is taken before the WOFF2 step.
process_font_hash_raw(cfg, font, font_glyph_ids) ==
    LET parsed == FontRefFromIndex(font.data.bytes, font.index)
        raw == IF cfg.subset_fonts
               THEN IF IsOk(parsed)
                    THEN Ok(subset_font(font.data.bytes, font.index, font_glyph_ids))
                    ELSE parsed
               ELSE Ok(font.data.bytes)
        stored == IF ~IsOk(raw) THEN raw
                  ELSE IF cfg.woff2_fonts THEN encode_woff2(raw.val) ELSE raw
    IN  IF ~IsOk(stored) THEN stored
        ELSE LET hash == sha256_hex(raw.val)
             IN Ok([raw_size |-> raw.val.len,
                    stored_data |-> stored.val,
                    hash |-> hash,
                    path |-> <<"fonts", hash, IF cfg.woff2_fonts THEN "woff2" ELSE "ttf">>])

\* Bug: raw_size is the length of the stored bytes.
process_font_stored_size(cfg, font, font_glyph_ids) ==
    LET parsed == FontRefFromIndex(font.data.bytes, font.index)
        raw == IF cfg.subset_fonts
               THEN IF IsOk(parsed)
                    THEN Ok(subset_font(font.data.bytes, font.index, font_glyph_ids))
                    ELSE parsed
               ELSE Ok(font.data.bytes)
        stored == IF ~IsOk(raw) THEN raw
                  ELSE IF cfg.woff2_fonts THEN encode_woff2(raw.val) ELSE raw
    IN  IF ~IsOk(stored) THEN stored
        ELSE LET hash == sha256_hex(stored.val)
             IN Ok([raw_size |-> stored.val.len,
                    stored_data |-> stored.val,
                    hash |-> hash,
                    path |-> <<"fonts", hash, IF cfg.woff2_fonts THEN "woff2" ELSE "ttf">>])

\* The body of the closure of FontWriter::into_processed for one font.
process_font(cfg, font, font_glyph_ids) ==
    LET parsed == FontRefFromIndex(font.data.bytes, font.index)
        raw == IF cfg.subset_fonts
               THEN IF IsOk(parsed)
                    THEN Ok(subset_font(font.data.bytes, font.index, font_glyph_ids))
                    ELSE parsed
               ELSE Ok(font.data.bytes)
        stored == IF ~IsOk(raw) THEN raw
                  ELSE IF cfg.woff2_fonts THEN encode_woff2(raw.val) ELSE raw
    IN  IF ~IsOk(stored) THEN stored
        ELSE LET hash == sha256_hex(stored.val)
             IN Ok([raw_size |-> raw.val.len,
                    stored_data |-> stored.val,
                    hash |-> hash,
                    path |-> <<"fonts", hash, IF cfg.woff2_fonts THEN "woff2" ELSE "ttf">>])

into_processed(cfg, fw) ==
    [i \in DOMAIN fw.fonts |-> process_font(cfg, fw.fonts[i], fw.glyph_ids[i])]

\* ------------------------------------------------------ ResourceCollector
NewCollector == [fonts |-> NewFontWriter, image_id_map |-> << >>, images |-> << >>]

\* `panicked` is the unwrap() of line 159 hitting None.
\* Bug: no lookup in image_id_map, every reference appends an image.
register_image_nodedup(col, c, resource) ==
    IF resource.id \notin DOMAIN c.image_data
    THEN [col |-> col, id |-> 0, panicked |-> TRUE]
    ELSE [col |-> [col EXCEPT !.images = Append(@, c.image_data[resource.id])],
          id |-> Len(col.images),
          panicked |-> FALSE]

\* Bug: new images are inserted in front, so that the IDs already handed out go
\* stale.
register_image_front(col, c, resource) ==
    IF resource.id \in DOMAIN col.image_id_map
    THEN [col |-> col, id |-> col.image_id_map[resource.id], panicked |-> FALSE]
    ELSE IF resource.id \notin DOMAIN c.image_data
         THEN [col |-> col, id |-> 0, panicked |-> TRUE]
         ELSE [col |-> [col EXCEPT
                          !.image_id_map = @ @@ (resource.id :> Len(col.images)),
                          !.images = <<c.image_data[resource.id]>> \o @],
               id |-> Len(col.images),
               panicked |-> FALSE]

register_image(col, c, resource) ==
    IF resource.id \in DOMAIN col.image_id_map
    THEN [col |-> col, id |-> col.image_id_map[resource.id], panicked |-> FALSE]
    ELSE IF resource.id \notin DOMAIN c.image_data
         THEN [col |-> col, id |-> 0, panicked |-> TRUE]
         ELSE [col |-> [col EXCEPT
                          !.image_id_map = @ @@ (resource.id :> Len(col.images)),
                          !.images = Append(@, c.image_data[resource.id])],
               id |-> Len(col.images),
               panicked |-> FALSE]

collect_brush(col, c, brush) ==
    IF brush.tag = "Image"
    THEN LET r == register_image(col, c, brush.image) IN
         [col |-> r.col, brush |-> [brush EXCEPT !.image = r.id], panicked |-> r.panicked]
    ELSE [col |-> col, brush |-> brush, panicked |-> FALSE]

\* Bug: the transform of a stroke or fill is not copied.
collect_command_untransformed(cfg, col, c, cmd) ==
    CASE cmd.kind \in {"Stroke", "Fill"} ->
            LET b == collect_brush(col, c, cmd.brush) IN
            [col |-> b.col,
             cmd |-> [cmd EXCEPT !.brush = b.brush, !.transform = "identity"],
             panicked |-> b.panicked]
      [] cmd.kind = "GlyphRun" ->
            LET reg == register(cfg, col.fonts, cmd.font_data)
                fw == record_glyphs(cfg, reg.fw, reg.id, cmd.glyphs)
                b == collect_brush([col EXCEPT !.fonts = fw], c, cmd.brush)
            IN [col |-> b.col,
                cmd |-> [cmd EXCEPT
                           !.font_data = [resource_id |-> reg.id,
                                          index |-> face_index(cfg, cmd.font_data)],
                           !.brush = b.brush],
                panicked |-> b.panicked]
      [] OTHER -> [col |-> col, cmd |-> cmd, panicked |-> FALSE]

collect_command(cfg, col, c, cmd) ==
    CASE cmd.kind \in {"Stroke", "Fill"} ->
            LET b == collect_brush(col, c, cmd.brush) IN
            [col |-> b.col, cmd |-> [cmd EXCEPT !.brush = b.brush], panicked |-> b.panicked]
      [] cmd.kind = "GlyphRun" ->
            LET reg == register(cfg, col.fonts, cmd.font_data)
                fw == record_glyphs(cfg, reg.fw, reg.id, cmd.glyphs)
                b == collect_brush([col EXCEPT !.fonts = fw], c, cmd.brush)
            IN [col |-> b.col,
                cmd |-> [cmd EXCEPT
                           !.font_data = [resource_id |-> reg.id,
                                          index |-> face_index(cfg, cmd.font_data)],
                           !.brush = b.brush],
                panicked |-> b.panicked]
      [] OTHER -> [col |-> col, cmd |-> cmd, panicked |-> FALSE]

RECURSIVE collect_commands(_, _, _, _, _)
collect_commands(cfg, col, c, cmds, out) ==
    IF cmds = << >>
    THEN [col |-> col, commands |-> out, panicked |-> FALSE]
    ELSE LET r == collect_command(cfg, col, c, Head(cmds)) IN
         IF r.panicked
         THEN [col |-> r.col, commands |-> out, panicked |-> TRUE]
         ELSE collect_commands(cfg, r.col, c, Tail(cmds), Append(out, r.cmd))

\* First error of a sequence of results, or the sequence of their values.
CollectResults(rs) ==
    IF \E i \in DOMAIN rs : ~IsOk(rs[i])
    THEN rs[CHOOSE i \in DOMAIN rs : ~IsOk(rs[i]) /\ \A j \in 1 .. (i - 1) : IsOk(rs[j])]
    ELSE Ok([i \in DOMAIN rs |-> rs[i].val])

\* Bug: the entry records the format of the stored bytes.
ImageMetadataOf_normalized(idx, original, normalized) ==
    [id |-> idx, kind |-> "image", size |-> Len(normalized.data),
     sha256_hash |-> sha256_hex(normalized.data),
     path |-> <<"images", sha256_hex(normalized.data), "png">>,
     format |-> normalized.format, alpha_type |-> normalized.alpha_type,
     width |-> normalized.width, height |-> normalized.height]

ImageMetadataOf(idx, original, normalized) ==
    [id |-> idx, kind |-> "image", size |-> Len(normalized.data),
     sha256_hash |-> sha256_hex(normalized.data),
     path |-> <<"images", sha256_hex(normalized.data), "png">>,
     format |-> original.format, alpha_type |-> original.alpha_type,
     width |-> original.width, height |-> original.height]

FontMetadataOf(idx, font) ==
    [id |-> idx, kind |-> "font", size |-> font.raw_size,
     sha256_hash |-> font.hash, path |-> font.path]

\* from_scene after the commands are converted (lines 423-483): `collected` is
\* the collector and the converted commands.
finish_build(s, cfg, collected) ==
    LET col == collected.col
        images == CollectResults(
            [i \in DOMAIN col.images |->
                LET data == convert_to_rgba(col.images[i]) IN
                IF IsOk(data)
                THEN Ok([data |-> data.val, format |-> "Rgba8",
                         alpha_type |-> col.images[i].alpha_type,
                         width |-> col.images[i].width,
                         height |-> col.images[i].height])
                ELSE data])
        fonts == CollectResults(into_processed(cfg, col.fonts))
    IN  IF collected.panicked THEN Panic
        ELSE IF ~IsOk(images) THEN images
        ELSE IF ~IsOk(fonts) THEN fonts
        ELSE Ok([manifest |->
                    [version |-> CURRENT_VERSION,
                     tolerance |-> s.tolerance,
                     images |-> [i \in DOMAIN images.val |->
                                   ImageMetadataOf(i - 1, col.images[i], images.val[i])],
                     fonts |-> [i \in DOMAIN fonts.val |->
                                   FontMetadataOf(i - 1, fonts.val[i])]],
                 commands |-> collected.commands,
                 fonts |-> [i \in DOMAIN fonts.val |-> fonts.val[i].stored_data],
                 images |-> images.val])

from_scene(c, s, cfg) ==
    finish_build(s, cfg, collect_commands(cfg, NewCollector, c, s.commands, << >>))

\* ------------------------------------------------------- container entries
\* A container is the sequence of named entries in the order they were
\* written; a payload is described by what its decoder observes.
ManifestName == <<"resources.json">>
CommandsName == <<"draw_commands.json">>

Entry(name, data) == [name |-> name, data |-> data]
Names(entries) == { entries[i].name : i \in DOMAIN entries }

\* ZipArchive::by_name
by_name(entries, name) ==
    IF name \in Names(entries)
    THEN Ok(entries[CHOOSE i \in DOMAIN entries :
                      /\ entries[i].name = name
                      /\ \A j \in DOMAIN entries : entries[j].name = name => j <= i].data)
    ELSE Err("Zip", 0)

\* serde_json::to_string_pretty(&manifest) / serde_json::from_str::<ResourceManifest>
ManifestJson(manifest) ==
    [type |-> "json", schema |-> "ResourceManifest", version |-> manifest.version,
     body |-> manifest]
ParseManifest(data) ==
    IF data.type = "json" /\ data.schema = "ResourceManifest"
    THEN Ok(data.body) ELSE Err("Json", 0)

\* serde_json::from_str::<Vec<SerializableRenderCommand>>
ParseCommands(data) ==
    IF data.type = "json" /\ data.schema = "Commands"
    THEN Ok(data.body) ELSE Err("Json", 0)

encode_rgba_to_png(rgba_data, width, height) ==
    IF Len(rgba_data) < width * height * 4
    THEN Err("InvalidFormat", 0)
    ELSE Ok([type |-> "png", width |-> width, height |-> height, rgba |-> rgba_data])

decode_png_to_rgba(png_data) ==
    IF png_data.type = "png" THEN Ok(png_data.rgba) ELSE Err("Image", 0)

FontFile(bytes) == [type |-> "font", bytes |-> bytes]
\* A font file with some bytes past its signature changed.
AlteredFont(bytes) == [enc |-> bytes.enc, len |-> bytes.len, altered |-> TRUE]
Garbage == [type |-> "garbage"]

\* ZipWriter::start_file + write_all; `dups` says whether this build of the
\* zip crate accepts a second entry with a name already written.
RECURSIVE write_entries(_, _, _)
write_entries(written, todo, dups) ==
    IF todo = << >> THEN [result |-> Ok(0), entries |-> written]
    ELSE IF ~IsOk(Head(todo)) THEN [result |-> Head(todo), entries |-> written]
    ELSE IF Head(todo).val.name \in Names(written) /\ ~dups
         THEN [result |-> Err("Zip", 0), entries |-> written]
         ELSE write_entries(Append(written, Head(todo).val), Tail(todo), dups)

serialize(a, commands_json, dups) ==
    write_entries(<< >>,
        <<Ok(Entry(ManifestName, ManifestJson(a.manifest))),
          Ok(Entry(CommandsName, commands_json))>>
        \o [i \in DOMAIN a.images |->
              LET png == encode_rgba_to_png(a.images[i].data, a.images[i].width,
                                            a.images[i].height)
              IN IF IsOk(png) THEN Ok(Entry(a.manifest.images[i].path, png.val)) ELSE png]
        \o [i \in DOMAIN a.fonts |->
              Ok(Entry(a.manifest.fonts[i].path, FontFile(a.fonts[i])))],
        dups)

\* Bug: a digest disagreement gets an error kind of its own.
read_image_own_kind(entries, meta) ==
    LET file == by_name(entries, meta.path)
        rgba == IF IsOk(file) THEN decode_png_to_rgba(file.val) ELSE file
    IN  IF ~IsOk(rgba) THEN rgba
        ELSE IF sha256_hex(rgba.val) # meta.sha256_hash THEN Err("HashMismatch", 0)
        ELSE Ok([data |-> rgba.val, format |-> "Rgba8", alpha_type |-> meta.alpha_type,
                 width |-> meta.width, height |-> meta.height])

read_image(entries, meta) ==
    LET file == by_name(entries, meta.path)
        rgba == IF IsOk(file) THEN decode_png_to_rgba(file.val) ELSE file
    IN  IF ~IsOk(rgba) THEN rgba
        ELSE IF sha256_hex(rgba.val) # meta.sha256_hash THEN Err("InvalidFormat", 0)
        ELSE Ok([data |-> rgba.val, format |-> "Rgba8", alpha_type |-> meta.alpha_type,
                 width |-> meta.width, height |-> meta.height])

\* Bug: the font bytes are accepted without comparing their digest.
read_font_unverified(entries, meta) ==
    LET file == by_name(entries, meta.path) IN
    IF ~IsOk(file) THEN file
    ELSE IF file.val.type # "font" THEN Err("InvalidFormat", 0)
         ELSE Ok(file.val.bytes)

read_font(entries, meta) ==
    LET file == by_name(entries, meta.path) IN
    IF ~IsOk(file) THEN file
    ELSE IF file.val.type # "font" \/ sha256_hex(file.val.bytes) # meta.sha256_hash
         THEN Err("InvalidFormat", 0)
         ELSE Ok(file.val.bytes)

\* Bug: draw_commands.json is read and parsed before the version is compared.
deserialize_commands_first(entries) ==
    LET manifest_file == by_name(entries, ManifestName)
        manifest == IF IsOk(manifest_file) THEN ParseManifest(manifest_file.val)
                    ELSE manifest_file
        commands_file == by_name(entries, CommandsName)
        commands == IF IsOk(commands_file) THEN ParseCommands(commands_file.val)
                    ELSE commands_file
    IN  IF ~IsOk(manifest) THEN manifest
        ELSE IF ~IsOk(commands) THEN commands
        ELSE IF manifest.val.version # CURRENT_VERSION
             THEN Err("UnsupportedVersion", manifest.val.version)
        ELSE LET images == CollectResults(
                    [i \in DOMAIN manifest.val.images |->
                        read_image(entries, manifest.val.images[i])])
                 fonts == CollectResults(
                    [i \in DOMAIN manifest.val.fonts |->
                        read_font(entries, manifest.val.fonts[i])])
             IN IF ~IsOk(images) THEN images
                ELSE IF ~IsOk(fonts) THEN fonts
                ELSE Ok([manifest |-> manifest.val, commands |-> commands.val,
                         fonts |-> fonts.val, images |-> images.val])

deserialize(entries) ==
    LET manifest_file == by_name(entries, ManifestName)
        manifest == IF IsOk(manifest_file) THEN ParseManifest(manifest_file.val)
                    ELSE manifest_file
        commands_file == by_name(entries, CommandsName)
        commands == IF IsOk(commands_file) THEN ParseCommands(commands_file.val)
                    ELSE commands_file
    IN  IF ~IsOk(manifest) THEN manifest
        ELSE IF manifest.val.version # CURRENT_VERSION
             THEN Err("UnsupportedVersion", manifest.val.version)
        ELSE IF ~IsOk(commands) THEN commands
        ELSE LET images == CollectResults(
                    [i \in DOMAIN manifest.val.images |->
                        read_image(entries, manifest.val.images[i])])
                 fonts == CollectResults(
                    [i \in DOMAIN manifest.val.fonts |->
                        read_font(entries, manifest.val.fonts[i])])
             IN IF ~IsOk(images) THEN images
                ELSE IF ~IsOk(fonts) THEN fonts
                ELSE Ok([manifest |-> manifest.val, commands |-> commands.val,
                         fonts |-> fonts.val, images |-> images.val])

\* -------------------------------------------------- ResourceReconstructor
Min(a, b) == IF a < b THEN a ELSE b

\* ResourceReconstructor::new: registers every image, in order.
RECURSIVE register_all(_, _, _)
register_all(c, images, out) ==
    IF images = << >> THEN [ctx |-> c, image_resources |-> out]
    ELSE LET r == register_image_result(c, Head(images)) IN
         register_all(r.ctx, Tail(images), Append(out, r.resource))

\* Bug: an ID past the end is clamped to the last font.
get_font_clamped(rec, id) ==
    IF rec.fonts = << >> THEN Err("ResourceNotFound", id)
    ELSE Ok(rec.fonts[Min(id + 1, Len(rec.fonts))])

\* Bug: the ID is only bounds-checked, the first font is returned.
get_font_first(rec, id) ==
    IF id < Len(rec.fonts) THEN Ok(rec.fonts[1]) ELSE Err("ResourceNotFound", id)

get_font(rec, id) ==
    IF id < Len(rec.fonts) THEN Ok(rec.fonts[id + 1]) ELSE Err("ResourceNotFound", id)

\* Bug: the ID is only bounds-checked, the first resource is returned.
get_image_resource_first(rec, id) ==
    IF id < Len(rec.image_resources) THEN Ok(rec.image_resources[1])
    ELSE Err("ResourceNotFound", id)

get_image_resource(rec, id) ==
    IF id < Len(rec.image_resources) THEN Ok(rec.image_resources[id + 1])
    ELSE Err("ResourceNotFound", id)

reconstruct_brush(rec, brush) ==
    IF brush.tag = "Image"
    THEN LET resource == get_image_resource(rec, brush.image) IN
         IF IsOk(resource) THEN Ok([brush EXCEPT !.image = resource.val]) ELSE resource
    ELSE Ok(brush)

reconstruct_command(rec, cmd) ==
    CASE cmd.kind \in {"Stroke", "Fill"} ->
            LET b == reconstruct_brush(rec, cmd.brush) IN
            IF IsOk(b) THEN Ok([cmd EXCEPT !.brush = b.val]) ELSE b
      [] cmd.kind = "GlyphRun" ->
            LET font == get_font(rec, cmd.font_data.resource_id)
                b == reconstruct_brush(rec, cmd.brush)
            IN  IF ~IsOk(font) THEN font
                ELSE IF ~IsOk(b) THEN b
                ELSE Ok([cmd EXCEPT
                           !.font_data = [data |-> font.val.data,
                                          index |-> cmd.font_data.index],
                           !.brush = b.val])
      [] OTHER -> Ok(cmd)

\* Number of leading Ok results: the elements a short-circuiting collect evaluates
\* successfully before it stops.
OkPrefix(rs) ==
    IF \A i \in DOMAIN rs : IsOk(rs[i]) THEN Len(rs)
    ELSE (CHOOSE i \in DOMAIN rs : ~IsOk(rs[i]) /\ \A j \in 1 .. (i - 1) : IsOk(rs[j])) - 1

\* Bug: the decoder is chosen by the extension of the entry's path.
decode_font_by_extension(a, i) ==
    IF i <= Len(a.manifest.fonts) /\ a.manifest.fonts[i].path[3] = "woff2"
    THEN decompress_woff2(a.fonts[i])
    ELSE Ok(a.fonts[i])

\* The closure of to_scene over self.fonts (lines 507-517): the stored bytes
\* alone choose the decoder.
decode_font(a, i) ==
    IF starts_with_wOF2(a.fonts[i]) THEN decompress_woff2(a.fonts[i])
    ELSE Ok(a.fonts[i])

\* The result of to_scene together with what it leaves behind in the caller's
\* context and in the Blob id counter.
to_scene(a, c, blob_id) ==
    LET n == Min(Len(a.images), Len(a.manifest.images))
        images == CollectResults(
            [i \in 1 .. n |->
                LET data == convert_from_rgba(a.images[i].data, a.manifest.images[i].format)
                IN IF IsOk(data)
                   THEN Ok([data |-> data.val, format |-> a.manifest.images[i].format,
                            alpha_type |-> a.images[i].alpha_type,
                            width |-> a.images[i].width, height |-> a.images[i].height])
                   ELSE data])
        decoded == [i \in DOMAIN a.fonts |-> decode_font(a, i)]
        fonts_ttf == CollectResults(
            [i \in DOMAIN a.fonts |->
                IF IsOk(decoded[i])
                THEN Ok([data |-> [id |-> blob_id + i - 1, bytes |-> decoded[i].val],
                         index |-> 0])
                ELSE decoded[i]])
    IN  IF ~IsOk(images) THEN [result |-> images, ctx |-> c, next_blob_id |-> blob_id]
        ELSE IF ~IsOk(fonts_ttf)
             THEN [result |-> fonts_ttf, ctx |-> c,
                   next_blob_id |-> blob_id + OkPrefix(decoded)]
        ELSE LET reg == register_all(c, images.val, << >>)
                 rec == [fonts |-> fonts_ttf.val, image_resources |-> reg.image_resources]
                 commands == CollectResults(
                    [i \in DOMAIN a.commands |-> reconstruct_command(rec, a.commands[i])])
             IN [result |-> IF IsOk(commands)
                            THEN Ok([tolerance |-> a.manifest.tolerance,
                                     commands |-> commands.val])
                            ELSE commands,
                 ctx |-> reg.ctx,
                 next_blob_id |-> blob_id + Len(a.fonts)]

\* json_formatter::to_json_depth_limited(&self.commands, 3)
to_json_depth_limited(commands) ==
    [type |-> "json", schema |-> "Commands", body |-> commands]

\* ================================================================ actions
Init ==
    /\ ctx = NewContext
    /\ scene = NewScene
    /\ config = [subset_fonts |-> FALSE, woff2_fonts |-> FALSE]
    /\ pc = "recording"
    /\ archive = NoResult
    /\ zip = << >>
    /\ edits = 0
    /\ loaded = NoResult
    /\ restore_ctx = NewContext
    /\ restored = NoResult
    /\ write_result = NoResult
    /\ next_blob_id = FirstFreeBlobId
    /\ builds = NoBuilds

Pipeline == <<config, archive, zip, edits, loaded, restore_ctx, restored, write_result,
              next_blob_id, builds>>

\* Paints the caller draws with.  Fills use every handle the context has issued,
\* a solid color and a custom paint; strokes and glyph runs are drawn in black,
\* with the first image or with a custom paint.
Paints == {SolidPaint(Black), CustomPaint} \cup { ImagePaint(r) : r \in IssuedResources(ctx) }
FewPaints ==
    {SolidPaint(Black)} \cup { ImagePaint(r) : r \in { q \in IssuedResources(ctx) : q.id = 0 } }
GlyphRunInputs ==
    { <<TestGlyphs1, SolidPaint(Black)>>, <<TestGlyphs2, SolidPaint(Black)>> }
        \cup { <<TestGlyphs1, p>> : p \in FewPaints }
\* Fonts and runs draw_glyphs is called with: every font with every run above,
\* and one run in a custom paint.
DrawGlyphsInputs ==
    { <<font, run[1], run[2]>> : font \in TestFonts, run \in GlyphRunInputs }
        \cup { <<[data |-> [id |-> 1, bytes |-> Collection], index |-> 0],
                 TestGlyphs1, CustomPaint>> }

Pushed(cmd) == [scene EXCEPT !.commands = Append(@, cmd)]
Recording == pc = "recording" /\ Len(scene.commands) < MaxCmds

\* ---- RenderContext for RecordingRenderContext
RegisterImage ==
    /\ pc = "recording"
    /\ ctx.next_resource_id < MaxImages
    /\ \E image \in TestImages : ctx' = register_image_result(ctx, image).ctx
    /\ UNCHANGED <<scene, pc, Pipeline>>

UnregisterResource ==
    /\ pc = "recording"
    /\ ctx.next_resource_id - Cardinality(DOMAIN ctx.image_data) < MaxUnregister
    /\ \E id \in DOMAIN ctx.image_data : ctx' = unregister_resource_result(ctx, id)
    /\ UNCHANGED <<scene, pc, Pipeline>>

\* ---- PaintScene for Scene
PopLayer ==
    /\ Recording
    /\ scene' = Pushed(PopLayerCommand)
    /\ UNCHANGED <<ctx, pc, Pipeline>>

Stroke ==
    /\ Recording
    /\ \E paint \in FewPaints \cup {CustomPaint} :
          scene' = Pushed(StrokeCommand("width1", "identity", convert_paintref(paint)))
    /\ UNCHANGED <<ctx, pc, Pipeline>>

Fill ==
    /\ Recording
    /\ \E paint \in Paints :
          scene' = Pushed(FillCommand("NonZero", "identity", convert_paintref(paint)))
    /\ UNCHANGED <<ctx, pc, Pipeline>>

DrawGlyphs ==
    /\ Recording
    /\ \E in \in DrawGlyphsInputs :
          scene' = Pushed(GlyphRunCommand(in[1], "identity", convert_paintref(in[3]), in[2]))
    /\ UNCHANGED <<ctx, pc, Pipeline>>

\* ---- SceneArchive
FromScene ==
    /\ pc = "recording"
    /\ \E cfg \in Configs :
          /\ config' = cfg
          /\ archive' = from_scene(ctx, scene, cfg)
    /\ pc' = "built"
    /\ UNCHANGED <<ctx, scene, zip, edits, loaded, restore_ctx, restored, write_result,
                   next_blob_id, builds>>

Serialize ==
    /\ pc = "built"
    /\ IsOk(archive)
    /\ \E dups \in BOOLEAN :
          LET w == serialize(archive.val, to_json_depth_limited(archive.val.commands), dups)
          IN /\ write_result' = w.result
             /\ zip' = w.entries
    /\ pc' = "written"
    /\ UNCHANGED <<ctx, scene, config, archive, edits, loaded, restore_ctx, restored,
                   next_blob_id, builds>>

Deserialize ==
    /\ pc = "written"
    /\ IsOk(write_result)
    /\ loaded' = deserialize(zip)
    /\ pc' = "loaded"
    /\ UNCHANGED <<ctx, scene, config, archive, zip, edits, restore_ctx, restored,
                   write_result, next_blob_id, builds>>

ToScene ==
    /\ pc = "loaded"
    /\ IsOk(loaded)
    /\ LET r == to_scene(loaded.val, NewContext, next_blob_id)
       IN /\ restored' = r.result
          /\ restore_ctx' = r.ctx
          /\ next_blob_id' = r.next_blob_id
    /\ pc' = "restored"
    /\ UNCHANGED <<ctx, scene, config, archive, zip, edits, loaded, write_result, builds>>

Next ==
    \/ RegisterImage
    \/ PopLayer
    \/ Stroke
    \/ Fill
    \/ DrawGlyphs
    \/ FromScene
    \/ Serialize
    \/ Deserialize
    \/ ToScene

Spec == Init /\ [][Next]_vars

\* ------------------------------------------------ unregistering resources
NextUnregister ==
    \/ RegisterImage
    \/ UnregisterResource
    \/ PopLayer
    \/ Fill
    \/ FromScene

SpecUnregister == Init /\ [][NextUnregister]_vars

\* ------------------------------------------------- reading any container
\* deserialize takes any reader.  The containers read here are those written
\* for a few recordings, altered up to MaxEdits times before they are read.
SampleContext ==
    register_image_result(
        register_image_result(NewContext, ImageData(Red, "Bgra8")).ctx,
        ImageData(Green, "Rgba8")).ctx

Handle(id) == [id |-> id, width |-> 1, height |-> 1]
Font(blob, index) == [data |-> [id |-> blob, bytes |-> Collection], index |-> index]

SampleScenes ==
    { [tolerance |-> DEFAULT_TOLERANCE, commands |-> cmds] : cmds \in
        { <<FillCommand("NonZero", "identity", ImageBrush(Handle(1))),
            GlyphRunCommand(Font(1, 1), "identity", ImageBrush(Handle(0)), TestGlyphs1),
            StrokeCommand("width1", "identity", ImageBrush(Handle(1)))>>,
          <<GlyphRunCommand(Font(1, 0), "identity", SolidBrush(Black), TestGlyphs2),
            PopLayerCommand,
            GlyphRunCommand(Font(2, 0), "identity", SolidBrush(Black), TestGlyphs1)>> } }

InitRead ==
    /\ ctx = SampleContext
    /\ scene \in SampleScenes
    /\ config \in Configs
    /\ archive = from_scene(ctx, scene, config)
    /\ LET w == serialize(archive.val, to_json_depth_limited(archive.val.commands), FALSE)
       IN /\ write_result = w.result
          /\ zip = w.entries
    /\ pc = "written"
    /\ edits = 0
    /\ loaded = NoResult
    /\ restore_ctx = NewContext
    /\ restored = NoResult
    /\ next_blob_id = FirstFreeBlobId
    /\ builds = NoBuilds

Edit(entries) ==
    /\ pc = "written"
    /\ edits < MaxEdits
    /\ zip' = entries
    /\ edits' = edits + 1
    /\ UNCHANGED <<ctx, scene, config, pc, archive, loaded, restore_ctx, restored,
                   write_result, next_blob_id, builds>>

Replace(entries, name, data) ==
    [i \in DOMAIN entries |->
        IF entries[i].name = name THEN Entry(name, data) ELSE entries[i]]

Without(entries, name) == SelectSeq(entries, LAMBDA e : e.name # name)

\* resources.json rewritten to carry another version, with the fields of the
\* current schema or with those of some other schema.
EditVersion ==
    \E v \in {0, CURRENT_VERSION + 1}, same_schema \in BOOLEAN :
        /\ ManifestName \in Names(zip)
        /\ LET old == by_name(zip, ManifestName).val IN
           /\ old.schema = "ResourceManifest"
           /\ Edit(Replace(zip, ManifestName,
                    IF same_schema
                    THEN [old EXCEPT !.version = v, !.body.version = v]
                    ELSE [type |-> "json", schema |-> "Other", version |-> v,
                          body |-> << >>]))

\* An entry is deleted from the container.
EditRemove ==
    \E name \in Names(zip) : Edit(Without(zip, name))

\* The stored bytes of a resource are altered: the file no longer decodes, or
\* it decodes to other content.
EditPayload ==
    \E name \in Names(zip) \ {ManifestName, CommandsName} :
        LET old == by_name(zip, name).val IN
        \/ Edit(Replace(zip, name, Garbage))
        \/ /\ old.type = "png"
           /\ Edit(Replace(zip, name, [old EXCEPT !.rgba = [i \in DOMAIN @ |-> 7]]))
        \/ /\ old.type = "font"
           /\ Edit(Replace(zip, name, [old EXCEPT !.bytes = AlteredFont(@)]))

\* draw_commands.json rewritten so that one command names another resource ID.
EditCommand ==
    /\ CommandsName \in Names(zip)
    /\ LET old == by_name(zip, CommandsName).val IN
       /\ old.type = "json"
       /\ \E i \in DOMAIN old.body, id \in 0 .. 2 :
            \/ /\ HasImage(old.body[i])
               /\ Edit(Replace(zip, CommandsName, [old EXCEPT !.body[i].brush.image = id]))
            \/ /\ HasFont(old.body[i])
               /\ Edit(Replace(zip, CommandsName,
                        [old EXCEPT !.body[i].font_data.resource_id = id]))

\* A font entry is re-encoded in place (raw sfnt to WOFF2 or back) and its
\* digest in resources.json is brought up to date; its path stays.
EditFontEncoding ==
    /\ ManifestName \in Names(zip)
    /\ LET m == by_name(zip, ManifestName).val IN
       /\ m.schema = "ResourceManifest"
       /\ \E i \in DOMAIN m.body.fonts :
            /\ m.body.fonts[i].path \in Names(zip)
            /\ LET old == by_name(zip, m.body.fonts[i].path).val IN
               /\ old.type = "font"
               /\ "altered" \notin DOMAIN old.bytes
               /\ LET new == IF old.bytes.enc = "wOF2" THEN old.bytes.inner
                             ELSE encode_woff2(old.bytes).val
                  IN Edit(Replace(Replace(zip, m.body.fonts[i].path, FontFile(new)),
                            ManifestName,
                            [m EXCEPT !.body.fonts[i].sha256_hash = sha256_hex(new)]))

Reverse(s) == [i \in DOMAIN s |-> s[Len(s) + 1 - i]]

\* resources.json rewritten with the image entries, or the font entries, listed
\* in descending id order; every entry keeps its fields.
EditManifestOrder ==
    /\ ManifestName \in Names(zip)
    /\ LET m == by_name(zip, ManifestName).val IN
       /\ m.schema = "ResourceManifest"
       /\ \/ /\ Len(m.body.images) > 1
             /\ Edit(Replace(zip, ManifestName, [m EXCEPT !.body.images = Reverse(@)]))
          \/ /\ Len(m.body.fonts) > 1
             /\ Edit(Replace(zip, ManifestName, [m EXCEPT !.body.fonts = Reverse(@)]))

\* draw_commands.json is overwritten with bytes that are not JSON.
EditCommandsMalformed ==
    /\ CommandsName \in Names(zip)
    /\ by_name(zip, CommandsName).val # Garbage
    /\ Edit(Replace(zip, CommandsName, Garbage))

NextRead ==
    \/ EditVersion
    \/ EditCommandsMalformed
    \/ EditFontEncoding
    \/ EditManifestOrder
    \/ EditRemove
    \/ EditPayload
    \/ EditCommand
    \/ Deserialize
    \/ ToScene

SpecRead == InitRead /\ [][NextRead]_vars

\* --------------------------------------- any recording the API accepts
\* ImageData and FontData have public fields and register_image checks
\* nothing, so a recording may hold images whose buffer is shorter than
\* width*height*4, images of a format beyond the two the codec converts
\* (ImageFormat is non_exhaustive; "Other" stands for any further variant), and
\* font blobs that are not fonts.
ImageFormats == {"Rgba8", "Bgra8", "Other"}

OnePixel == <<1, 2, 3, 4>>
TwoPixels == <<1, 2, 3, 4, 5, 6, 7, 8>>
ShortBuffer == <<1, 2, 3>>

AnyImage(data, format, width) ==
    [data |-> data, format |-> format, alpha_type |-> "Alpha", width |-> width,
     height |-> 1]
AnyImages ==
    UNION { { AnyImage(OnePixel, f, 1), AnyImage(TwoPixels, f, 2),
              AnyImage(ShortBuffer, f, 1) } : f \in ImageFormats }

AnyContexts ==
    { register_image_result(NewContext, a).ctx : a \in AnyImages }
        \cup { register_image_result(register_image_result(NewContext, a).ctx,
                                     ImageData(Green, "Rgba8")).ctx : a \in AnyImages }

HandlesOf(c) ==
    { [id |-> k, width |-> c.image_data[k].width, height |-> c.image_data[k].height] :
        k \in DOMAIN c.image_data }

Malformed ==
    [enc |-> "garbage", name |-> "Malformed", faces |-> 0, face |-> -1,
     outlines |-> {}, len |-> 3]
MalformedFont == [data |-> [id |-> FirstFreeBlobId, bytes |-> Malformed], index |-> 0]
AnyFonts == { Font(1, 1), MalformedFont }

AnyCommands(c) ==
    { FillCommand("NonZero", "identity", ImageBrush(h)) : h \in HandlesOf(c) }
        \cup { FillCommand("EvenOdd", "translate", ImageBrush(h)) :
                  h \in { q \in HandlesOf(c) : q.id = 0 } }
        \cup { StrokeCommand("width2", "translate", SolidBrush(Black)) }
        \cup { GlyphRunCommand(font, "scale", SolidBrush(Black), TestGlyphs2) :
                  font \in AnyFonts }

AnyScenes(c) ==
    { [tolerance |-> DEFAULT_TOLERANCE, commands |-> cmds] :
        cmds \in UNION { [1 .. n -> AnyCommands(c)] : n \in 1 .. MaxCmds } }

InitInputs ==
    /\ ctx \in AnyContexts
    /\ scene \in AnyScenes(ctx)
    /\ config = [subset_fonts |-> FALSE, woff2_fonts |-> FALSE]
    /\ pc = "recording"
    /\ archive = NoResult
    /\ zip = << >>
    /\ edits = 0
    /\ loaded = NoResult
    /\ restore_ctx = NewContext
    /\ restored = NoResult
    /\ write_result = NoResult
    /\ next_blob_id = FirstFreeBlobId + 1
    /\ builds = NoBuilds

\* resources.json rewritten so that one image entry names another format.
EditFormat ==
    /\ IsOk(write_result)
    /\ ManifestName \in Names(zip)
    /\ LET old == by_name(zip, ManifestName).val IN
       /\ old.schema = "ResourceManifest"
       /\ \E k \in DOMAIN old.body.images :
            \E f \in ImageFormats \ {old.body.images[k].format} :
                Edit(Replace(zip, ManifestName, [old EXCEPT !.body.images[k].format = f]))

NextInputs ==
    \/ FromScene
    \/ Serialize
    \/ EditFormat
    \/ Deserialize
    \/ ToScene

SpecInputs == InitInputs /\ [][NextInputs]_vars

\* ------------------------------------------------ builds side by side
\* from_scene borrows the context and the scene and keeps everything else in
\* locals, so builds of several callers interleave freely.  Each build converts
\* its commands one at a time and then finishes; a caller may build again, and
\* may build again from the scene restored from its last archive.
OtherContext ==
    register_image_result(
        register_image_result(NewContext, ImageData(Green, "Rgba8")).ctx,
        ImageData(Red, "Bgra8")).ctx

GlyphScene ==
    [tolerance |-> DEFAULT_TOLERANCE,
     commands |->
        <<GlyphRunCommand(Font(1, 0), "identity", SolidBrush(Black), TestGlyphs2),
          GlyphRunCommand(Font(2, 0), "identity", SolidBrush(Black), << >>),
          GlyphRunCommand(Font(1, 0), "identity", ImageBrush(Handle(1)), TestGlyphs1)>>]

BuildInputs ==
    { [ctx |-> SampleContext, scene |-> sc] : sc \in SampleScenes \cup {GlyphScene} }
        \cup { [ctx |-> OtherContext, scene |-> GlyphScene] }

\* Bug: the collector of a build under way elsewhere is picked up.
ResourceCollector_new_shared(cfg, live) ==
    IF \E b \in DOMAIN live : live[b].state = "collecting"
    THEN live[CHOOSE b \in DOMAIN live : live[b].state = "collecting"].col
    ELSE NewCollector

\* ResourceCollector::new(config): whatever collectors are live, the new one
\* is empty.
ResourceCollector_new(cfg, live) == NewCollector

Collecting(b, n, c, s, cfg, source) ==
    [state |-> "collecting", n |-> n, ctx |-> c, scene |-> s, cfg |-> cfg,
     col |-> ResourceCollector_new(cfg, builds), out |-> << >>, result |-> NoResult,
     source |-> source]

BuildsFrame ==
    <<ctx, scene, config, pc, archive, zip, edits, loaded, restore_ctx, restored,
      write_result>>

\* from_scene is entered: lines 414-415.
StartBuild ==
    /\ \E b \in Builders :
          /\ builds[b].state \in {"idle", "done", "restored"}
          /\ builds[b].n < MaxBuilds
          /\ IF builds[b].state = "restored"
             THEN builds' = [builds EXCEPT ![b] =
                      Collecting(b, @.n + 1, @.ctx, @.scene, @.cfg, @.source)]
             ELSE \E in \in BuildInputs, cfg \in Configs :
                      builds' = [builds EXCEPT ![b] =
                          Collecting(b, @.n + 1, in.ctx, in.scene, cfg, NoResult)]
    /\ UNCHANGED <<BuildsFrame, next_blob_id>>

\* One turn of the map over scene.commands: lines 417-421.
ConvertCommand ==
    /\ \E b \in Builders :
          /\ builds[b].state = "collecting"
          /\ Len(builds[b].out) < Len(builds[b].scene.commands)
          /\ LET B == builds[b]
                 r == collect_command(B.cfg, B.col, B.ctx, B.scene.commands[Len(B.out) + 1])
             IN  builds' = [builds EXCEPT ![b] =
                    IF r.panicked
                    THEN [B EXCEPT !.state = "done", !.result = Panic]
                    ELSE [B EXCEPT !.col = r.col, !.out = Append(B.out, r.cmd)]]
    /\ UNCHANGED <<BuildsFrame, next_blob_id>>

\* The rest of from_scene: lines 423-483.
FinishBuild ==
    /\ \E b \in Builders :
          /\ builds[b].state = "collecting"
          /\ Len(builds[b].out) = Len(builds[b].scene.commands)
          /\ builds' = [builds EXCEPT ![b] =
                [@ EXCEPT !.state = "done",
                          !.result = finish_build(builds[b].scene, builds[b].cfg,
                                        [col |-> builds[b].col, commands |-> builds[b].out,
                                         panicked |-> FALSE])]]
    /\ UNCHANGED <<BuildsFrame, next_blob_id>>

\* to_scene on the archive just built, into a fresh context.
RestoreBuilt ==
    /\ \E b \in Builders :
          /\ builds[b].state = "done"
          /\ IsOk(builds[b].result)
          /\ builds[b].source = NoResult
          /\ builds[b].n < MaxBuilds
          /\ LET r == to_scene(builds[b].result.val, NewContext, next_blob_id) IN
             /\ IsOk(r.result)
             /\ builds' = [builds EXCEPT ![b] =
                    [@ EXCEPT !.state = "restored", !.ctx = r.ctx, !.scene = r.result.val,
                              !.source = builds[b].result]]
             /\ next_blob_id' = r.next_blob_id
    /\ UNCHANGED BuildsFrame

NextBuilds ==
    \/ StartBuild
    \/ ConvertCommand
    \/ FinishBuild
    \/ RestoreBuilt

SpecBuilds == Init /\ [][NextBuilds]_vars

\* ================================================================= claims
Built == pc # "recording" /\ IsOk(archive)
RoundTripped == pc = "restored" /\ IsOk(restored)

ImageCmds(cmds) == { i \in DOMAIN cmds : HasImage(cmds[i]) }
FontCmds(cmds) == { i \in DOMAIN cmds : HasFont(cmds[i]) }

\* A command without its resource references.
StripResources(cmd) ==
    LET c1 == IF HasImage(cmd) THEN [cmd EXCEPT !.brush.image = 0] ELSE cmd
    IN  IF HasFont(cmd) THEN [c1 EXCEPT !.font_data = 0] ELSE c1

C2_PixelsRebound ==
    RoundTripped =>
        \A i \in ImageCmds(scene.commands) :
            /\ HasImage(restored.val.commands[i])
            /\ restored.val.commands[i].brush.image.id \in DOMAIN restore_ctx.image_data
            /\ restore_ctx.image_data[restored.val.commands[i].brush.image.id].data
                  = ctx.image_data[scene.commands[i].brush.image.id].data

C2_Witness ==
    /\ RoundTripped
    /\ \E i, j \in ImageCmds(scene.commands) :
          ctx.image_data[scene.commands[i].brush.image.id].data
              # ctx.image_data[scene.commands[j].brush.image.id].data

\* C3: when several commands of the recording reference the same image handle,
\* the archive holds one image entry for it (one element of archive.images and
\* one of manifest.images per distinct handle), keeps every command, and all
\* those commands carry the same image ID.
C3_ImageDedup ==
    Built =>
        LET orig == scene.commands
            a == archive.val
            handles == { orig[i].brush.image.id : i \in ImageCmds(orig) }
        IN  /\ Len(a.commands) = Len(orig)
            /\ Len(a.images) = Cardinality(handles)
            /\ Len(a.manifest.images) = Cardinality(handles)
            /\ \A i, j \in ImageCmds(orig) :
                  orig[i].brush.image.id = orig[j].brush.image.id
                      => a.commands[i].brush.image = a.commands[j].brush.image

C3_Witness ==
    /\ Built
    /\ \E i, j \in ImageCmds(scene.commands) :
          i # j /\ scene.commands[i].brush.image.id = scene.commands[j].brush.image.id

\* C4: glyph runs that use the same font (same blob, same face index) get one
\* font entry and the same font resource ID, under every SerializeConfig.
C4_FontDedup ==
    Built =>
        LET orig == scene.commands
            a == archive.val
        IN  /\ \A i, j \in FontCmds(orig) :
                  orig[i].font_data = orig[j].font_data
                      => a.commands[i].font_data.resource_id
                            = a.commands[j].font_data.resource_id
            /\ Len(a.fonts) = Len(a.manifest.fonts)
            /\ Len(a.fonts)
                  = Cardinality({ a.commands[i].font_data.resource_id : i \in FontCmds(orig) })
            /\ Len(a.fonts) <= Cardinality({ orig[i].font_data : i \in FontCmds(orig) })

C4_Witness ==
    /\ Built
    /\ config.subset_fonts
    /\ \E i, j \in FontCmds(scene.commands) :
          i # j /\ scene.commands[i].font_data = scene.commands[j].font_data

\* C5: for glyph runs on two face indices of one font blob: with subset_fonts
\* off they share one font entry and each serialized command keeps its face
\* index; with subset_fonts on there is one entry per face and every serialized
\* face index is 0.
C5_FacesOfOneBlob ==
    Built =>
        LET orig == scene.commands
            a == archive.val
            blobs == { orig[i].font_data.data.id : i \in FontCmds(orig) }
            faces == { <<orig[i].font_data.data.id, orig[i].font_data.index>> :
                          i \in FontCmds(orig) }
        IN  /\ \A i, j \in FontCmds(orig) :
                  (/\ orig[i].font_data.data.id = orig[j].font_data.data.id
                   /\ orig[i].font_data.index # orig[j].font_data.index)
                  => IF config.subset_fonts
                     THEN /\ a.commands[i].font_data.resource_id
                                # a.commands[j].font_data.resource_id
                          /\ a.commands[i].font_data.index = 0
                          /\ a.commands[j].font_data.index = 0
                     ELSE /\ a.commands[i].font_data.resource_id
                                = a.commands[j].font_data.resource_id
                          /\ a.commands[i].font_data.index = orig[i].font_data.index
                          /\ a.commands[j].font_data.index = orig[j].font_data.index
            /\ Len(a.fonts) = IF config.subset_fonts THEN Cardinality(faces)
                              ELSE Cardinality(blobs)

C5_Witness ==
    /\ Built
    /\ ~config.subset_fonts
    /\ \E i, j \in FontCmds(scene.commands) :
          /\ scene.commands[i].font_data.data.id = scene.commands[j].font_data.data.id
          /\ scene.commands[i].font_data.index # scene.commands[j].font_data.index

\* The identity of the resource a command references, as the dedup rule of the
\* data model words it.
ImageIdentity(cmd) == cmd.brush.image.id
FontIdentity(cmd) ==
    <<cmd.font_data.data.id, IF config.subset_fonts THEN cmd.font_data.index ELSE 0>>

\* C6: separately for images and fonts, the k-th distinct resource in order of
\* first reference has archive ID k, the IDs in use are exactly 0..n-1, different
\* resources have different IDs, and manifest entry k has id k and describes
\* that resource.
C6_DenseFirstReferenceIds ==
    Built =>
        LET orig == scene.commands
            a == archive.val
            ImageRank(i) == Cardinality({ ImageIdentity(orig[j]) :
                j \in { j \in ImageCmds(orig) :
                          \A l \in ImageCmds(orig) :
                              ImageIdentity(orig[l]) = ImageIdentity(orig[i]) => j < l } })
            FontRank(i) == Cardinality({ FontIdentity(orig[j]) :
                j \in { j \in FontCmds(orig) :
                          \A l \in FontCmds(orig) :
                              FontIdentity(orig[l]) = FontIdentity(orig[i]) => j < l } })
            StoredFont(k) == IF a.fonts[k].enc = "wOF2" THEN a.fonts[k].inner ELSE a.fonts[k]
        IN  /\ \A i \in ImageCmds(orig) : a.commands[i].brush.image = ImageRank(i)
            /\ \A i \in FontCmds(orig) : a.commands[i].font_data.resource_id = FontRank(i)
            /\ { a.commands[i].brush.image : i \in ImageCmds(orig) }
                  = 0 .. (Len(a.manifest.images) - 1)
            /\ { a.commands[i].font_data.resource_id : i \in FontCmds(orig) }
                  = 0 .. (Len(a.manifest.fonts) - 1)
            /\ \A i, j \in ImageCmds(orig) :
                  ImageIdentity(orig[i]) # ImageIdentity(orig[j])
                      => a.commands[i].brush.image # a.commands[j].brush.image
            /\ \A i, j \in FontCmds(orig) :
                  FontIdentity(orig[i]) # FontIdentity(orig[j])
                      => a.commands[i].font_data.resource_id
                            # a.commands[j].font_data.resource_id
            /\ \A k \in DOMAIN a.manifest.images : a.manifest.images[k].id = k - 1
            /\ \A k \in DOMAIN a.manifest.fonts : a.manifest.fonts[k].id = k - 1
            /\ \A i \in ImageCmds(orig) :
                  LET meta == a.manifest.images[a.commands[i].brush.image + 1]
                      image == ctx.image_data[ImageIdentity(orig[i])]
                  IN  /\ meta.format = image.format
                      /\ meta.width = image.width /\ meta.height = image.height
                      /\ meta.size = Len(image.data)
                      /\ meta.sha256_hash
                            = sha256_hex(a.images[a.commands[i].brush.image + 1].data)
            /\ \A i \in FontCmds(orig) :
                  LET k == a.commands[i].font_data.resource_id + 1 IN
                  /\ a.manifest.fonts[k].sha256_hash = sha256_hex(a.fonts[k])
                  /\ StoredFont(k).name = orig[i].font_data.data.bytes.name
                  /\ config.subset_fonts => StoredFont(k).face = orig[i].font_data.index

C6_Witness ==
    /\ Built
    /\ config.subset_fonts
    /\ \E i, j \in ImageCmds(scene.commands) :
          i < j /\ ImageIdentity(scene.commands[i]) > ImageIdentity(scene.commands[j])
    /\ \E i \in FontCmds(scene.commands) : TRUE

\* ---------------------------------------------------------------- reading
Listed(a) == Range(a.manifest.images) \cup Range(a.manifest.fonts)

\* The stored entry at `meta.path`, when it is there and re-hashes to the
\* digest the manifest records for it.
StoredIntact(entries, meta) ==
    \E e \in Range(entries) :
        /\ e.name = meta.path
        /\ \/ meta.kind = "image" /\ e.data.type = "png"
                /\ sha256_hex(e.data.rgba) = meta.sha256_hash
           \/ meta.kind = "font" /\ e.data.type = "font"
                /\ sha256_hex(e.data.bytes) = meta.sha256_hash

\* C7 as stated: a container whose resources.json carries a version other than
\* CURRENT_VERSION, whatever its remaining fields, is refused by deserialize
\* with UnsupportedVersion(version).
C7_VersionRefused ==
    (pc = "loaded" /\ ManifestName \in Names(zip)) =>
        LET doc == by_name(zip, ManifestName).val IN
        (doc.type = "json" /\ doc.version # CURRENT_VERSION)
            => (IsErr(loaded, "UnsupportedVersion") /\ loaded.arg = doc.version)

\* C8: deserialize returns an archive only if every image and font entry the
\* manifest lists is in the container at its path and re-hashes to the entry's
\* sha256_hash; a listed entry that is missing or whose payload was altered makes
\* deserialize return an error.
C8_ListedEntriesVerified ==
    (pc = "loaded" /\ ManifestName \in Names(zip)) =>
        LET doc == by_name(zip, ManifestName).val IN
        /\ IsOk(loaded) =>
              /\ doc.type = "json" /\ doc.schema = "ResourceManifest"
              /\ loaded.val.manifest = doc.body
              /\ \A meta \in Listed(loaded.val) : StoredIntact(zip, meta)
        /\ (/\ doc.type = "json" /\ doc.schema = "ResourceManifest"
            /\ \E meta \in Range(doc.body.images) \cup Range(doc.body.fonts) :
                  ~StoredIntact(zip, meta))
              => loaded.status = "Err"

C8_Witness ==
    /\ pc = "loaded"
    /\ IsErr(loaded, "InvalidFormat")
    /\ \E e \in Range(zip) : e.data.type = "font" /\ "altered" \in DOMAIN e.data.bytes

\* C9: to_scene returns ResourceNotFound(id) and no Scene whenever a command,
\* at any position, references an image or font ID that is not in the
\* reconstructed resource table, and returns a Scene only when every referenced
\* ID is in the table.
C9_DanglingIdRefused ==
    pc = "restored" =>
        LET a == loaded.val
            nImages == Min(Len(a.images), Len(a.manifest.images))
            nFonts == Len(a.fonts)
            dangling ==
                { a.commands[i].brush.image :
                    i \in { j \in ImageCmds(a.commands) :
                              a.commands[j].brush.image >= nImages } }
                \cup { a.commands[i].font_data.resource_id :
                    i \in { j \in FontCmds(a.commands) :
                              a.commands[j].font_data.resource_id >= nFonts } }
            tableBuilt == ~(IsErr(restored, "InvalidFormat")
                            \/ IsErr(restored, "FontProcessing"))
        IN  /\ IsOk(restored) => dangling = {}
            /\ (tableBuilt /\ dangling # {})
                  => (IsErr(restored, "ResourceNotFound") /\ restored.arg \in dangling)

C9_Witness ==
    /\ pc = "restored"
    /\ IsErr(restored, "ResourceNotFound")
    /\ \E i \in FontCmds(loaded.val.commands) :
          /\ i > 1
          /\ loaded.val.commands[i].font_data.resource_id >= Len(loaded.val.fonts)
    /\ \A i \in ImageCmds(loaded.val.commands) :
          loaded.val.commands[i].brush.image < Len(loaded.val.images)

\* C10 as stated: from_scene hands every failure back as an ArchiveError value;
\* with an image handle the context no longer holds it returns Err (or an
\* archive) and does not panic.
C10_NoPanic == archive.status # "Panic"

\* ------------------------------------------------------- failures, formats
\* C11 as stated: when serialize returns an error, no entry has been written to
\* the caller's writer.
C11_NoPartialContainer ==
    (pc = "written" /\ write_result.status = "Err") => zip = << >>

\* Bytes 0 and 2 of every 4-byte pixel exchanged.
SwapRedBlue(p) ==
    [i \in DOMAIN p |-> IF i % 4 = 1 THEN p[i + 2] ELSE IF i % 4 = 3 THEN p[i - 2] ELSE p[i]]

Supported(format) == format \in {"Rgba8", "Bgra8"}

\* C12: for a pixel buffer whose length is a multiple of 4, convert_to_rgba is
\* the identity for RGBA8 and exchanges bytes 0 and 2 of every pixel for BGRA8
\* (BGRA8 [255,0,0,255] is stored as [0,0,255,255]), convert_from_rgba does the
\* same in the other direction, and convert_from_rgba undoes convert_to_rgba;
\* the bytes from_scene stores for an image are those convert_to_rgba gives.
C12_ChannelSwap ==
    /\ convert_to_rgba(ImageData(Red, "Bgra8")) = Ok(<<0, 0, 255, 255>>)
    /\ \A k \in DOMAIN ctx.image_data :
          LET img == ctx.image_data[k]
              expected == IF img.format = "Rgba8" THEN img.data ELSE SwapRedBlue(img.data)
          IN  (Len(img.data) % 4 = 0 /\ Supported(img.format)) =>
                  /\ convert_to_rgba(img) = Ok(expected)
                  /\ convert_from_rgba(img.data, img.format) = Ok(expected)
                  /\ convert_from_rgba(expected, img.format) = Ok(img.data)
    /\ Built =>
          \A i \in ImageCmds(scene.commands) :
              LET img == ctx.image_data[scene.commands[i].brush.image.id]
                  stored == archive.val.images[archive.val.commands[i].brush.image + 1]
              IN  Len(img.data) % 4 = 0 =>
                      stored.data = IF img.format = "Rgba8" THEN img.data
                                    ELSE SwapRedBlue(img.data)

C12_Witness ==
    /\ Built
    /\ \E i \in ImageCmds(scene.commands) :
          LET img == ctx.image_data[scene.commands[i].brush.image.id] IN
          img.format = "Bgra8" /\ Len(img.data) = 8

\* C13: from_scene returns InvalidFormat and no archive when an image the
\* recording references has a format other than RGBA8 and BGRA8; to_scene
\* returns InvalidFormat and no Scene when an image entry of the manifest names
\* such a format.
C13_UnsupportedFormatRefused ==
    /\ (/\ pc # "recording"
        /\ \E i \in ImageCmds(scene.commands) :
              ~Supported(ctx.image_data[scene.commands[i].brush.image.id].format))
          => IsErr(archive, "InvalidFormat")
    /\ (/\ pc = "restored"
        /\ \E k \in DOMAIN loaded.val.manifest.images :
              ~Supported(loaded.val.manifest.images[k].format))
          => IsErr(restored, "InvalidFormat")

C13_Witness ==
    /\ pc = "restored"
    /\ IsErr(restored, "InvalidFormat")
    /\ Len(loaded.val.manifest.images) = 2
    /\ Supported(loaded.val.manifest.images[1].format)
    /\ ~Supported(loaded.val.manifest.images[2].format)

\* C14: in an archive built by from_scene every stored image has format RGBA8,
\* whatever the original format, and manifest.images[k] records the format,
\* alpha type, width and height of the original image; the image to_scene
\* registers for entry k has the format manifest.images[k] names.
C14_StoredCanonical ==
    /\ Built =>
          LET a == archive.val IN
          /\ Len(a.manifest.images) = Len(a.images)
          /\ \A k \in DOMAIN a.images : a.images[k].format = "Rgba8"
          /\ \A i \in ImageCmds(scene.commands) :
                LET meta == a.manifest.images[a.commands[i].brush.image + 1]
                    img == ctx.image_data[scene.commands[i].brush.image.id]
                IN  /\ meta.format = img.format
                    /\ meta.alpha_type = img.alpha_type
                    /\ meta.width = img.width
                    /\ meta.height = img.height
    /\ RoundTripped =>
          \A k \in DOMAIN loaded.val.manifest.images :
              /\ (k - 1) \in DOMAIN restore_ctx.image_data
              /\ restore_ctx.image_data[k - 1].format = loaded.val.manifest.images[k].format

C14_Witness ==
    /\ RoundTripped
    /\ \E k \in DOMAIN archive.val.images :
          /\ archive.val.manifest.images[k].format = "Bgra8"
          /\ archive.val.images[k].format = "Rgba8"
          /\ restore_ctx.image_data[k - 1].format = "Bgra8"

\* ------------------------------------------------------ manifest and commands
\* The font file behind stored bytes: the content of a WOFF2 file, or the bytes.
Unpacked(stored) == IF stored.enc = "wOF2" THEN stored.inner ELSE stored

\* C15: every manifest entry's path is derived from the entry's own
\* sha256_hash: images/<hash>.png for an image, fonts/<hash>.woff2 with
\* woff2_fonts and fonts/<hash>.ttf without for a font, and the font hash is the
\* digest of the bytes finally stored (after subsetting and compression).
C15_PathFromHash ==
    Built =>
        LET a == archive.val IN
        /\ \A k \in DOMAIN a.manifest.images :
              /\ a.manifest.images[k].path
                    = <<"images", a.manifest.images[k].sha256_hash, "png">>
              /\ a.manifest.images[k].sha256_hash = sha256_hex(a.images[k].data)
        /\ \A k \in DOMAIN a.manifest.fonts :
              /\ a.manifest.fonts[k].path
                    = <<"fonts", a.manifest.fonts[k].sha256_hash,
                        IF config.woff2_fonts THEN "woff2" ELSE "ttf">>
              /\ a.manifest.fonts[k].sha256_hash = sha256_hex(a.fonts[k])
              /\ a.fonts[k].enc = IF config.woff2_fonts THEN "wOF2" ELSE "sfnt"
              /\ config.subset_fonts => Unpacked(a.fonts[k]).faces = 1

C15_Witness ==
    /\ Built
    /\ config.woff2_fonts /\ config.subset_fonts
    /\ Len(archive.val.manifest.fonts) > 0
    /\ Len(archive.val.manifest.images) > 0

\* C16: from_scene maps the commands 1:1: same length, same variant at every
\* position, and every field except the image reference of a brush and the font
\* reference of a glyph run copied unchanged; to_scene does the same from the
\* archive's commands to the restored scene's.
C16_CommandsMapped ==
    /\ Built =>
          /\ Len(archive.val.commands) = Len(scene.commands)
          /\ \A i \in DOMAIN scene.commands :
                /\ archive.val.commands[i].kind = scene.commands[i].kind
                /\ StripResources(archive.val.commands[i]) = StripResources(scene.commands[i])
    /\ RoundTripped =>
          /\ Len(restored.val.commands) = Len(loaded.val.commands)
          /\ \A i \in DOMAIN loaded.val.commands :
                /\ restored.val.commands[i].kind = loaded.val.commands[i].kind
                /\ StripResources(restored.val.commands[i])
                      = StripResources(loaded.val.commands[i])

C16_Witness ==
    /\ RoundTripped
    /\ \E i, j \in DOMAIN scene.commands :
          /\ scene.commands[i].kind = "Fill"
          /\ scene.commands[i].fill = "EvenOdd"
          /\ scene.commands[i].transform = "translate"
          /\ restored.val.commands[i].transform = "translate"
          /\ scene.commands[j].kind = "GlyphRun"
          /\ restored.val.commands[j].glyphs = TestGlyphs2

\* C17: recording a stroke, fill or glyph run raises no error and appends
\* exactly one command; a custom paint is recorded as a fully transparent solid
\* brush, so that no recorded command and no command of an archive carries a
\* custom paint.
C17_CustomPaintTransparent ==
    /\ [](/\ convert_paintref(CustomPaint) = SolidBrush(TRANSPARENT)
          /\ \A i \in DOMAIN scene.commands :
                HasBrush(scene.commands[i])
                    => scene.commands[i].brush.tag \in {"Solid", "Image"}
          /\ Built =>
                \A i \in DOMAIN archive.val.commands :
                    HasBrush(archive.val.commands[i])
                        => archive.val.commands[i].brush.tag \in {"Solid", "Image"})
    /\ [][scene' # scene =>
            /\ Len(scene'.commands) = Len(scene.commands) + 1
            /\ SubSeq(scene'.commands, 1, Len(scene.commands)) = scene.commands
            /\ scene'.tolerance = scene.tolerance
            /\ LET cmd == scene'.commands[Len(scene'.commands)] IN
               HasBrush(cmd) =>
                  cmd.brush \in { convert_paintref(p) : p \in Paints \cup {CustomPaint} }]_vars

C17_Witness ==
    /\ Built
    /\ \E i, j \in DOMAIN scene.commands :
          /\ scene.commands[i].kind = "Stroke"
          /\ scene.commands[i].brush = SolidBrush(TRANSPARENT)
          /\ scene.commands[j].kind = "GlyphRun"
          /\ scene.commands[j].brush = SolidBrush(TRANSPARENT)
          /\ archive.val.commands[j].brush = SolidBrush(TRANSPARENT)

\* ------------------------------------------------------------------- fonts
\* C18: with subset_fonts off, the bytes given to the compression step (and
\* stored as they are without woff2_fonts) are the original blob's bytes, and
\* the manifest entry's size is the original blob's length with and without
\* woff2_fonts.
C18_RawFontKept ==
    (Built /\ ~config.subset_fonts) =>
        \A i \in FontCmds(scene.commands) :
            LET k == archive.val.commands[i].font_data.resource_id + 1
                original == scene.commands[i].font_data.data.bytes
            IN  /\ Unpacked(archive.val.fonts[k]) = original
                /\ ~config.woff2_fonts => archive.val.fonts[k] = original
                /\ config.woff2_fonts => archive.val.fonts[k].enc = "wOF2"
                /\ archive.val.manifest.fonts[k].size = original.len

C18_Witness ==
    /\ Built
    /\ ~config.subset_fonts
    /\ config.woff2_fonts
    /\ \E i \in FontCmds(scene.commands) :
          archive.val.fonts[archive.val.commands[i].font_data.resource_id + 1].len
              # scene.commands[i].font_data.data.bytes.len

\* C19: glyph IDs are never remapped: the glyph list of every glyph run of the
\* archive and of the restored scene is the original list, and with
\* subset_fonts on every glyph ID a run uses that has an outline in the original
\* font has its outline under the same ID in the stored font and in the font of
\* the restored run.
C19_GlyphIdsKept ==
    /\ Built =>
          \A i \in FontCmds(scene.commands) :
              LET k == archive.val.commands[i].font_data.resource_id + 1
                  original == scene.commands[i].font_data.data.bytes
              IN  /\ archive.val.commands[i].glyphs = scene.commands[i].glyphs
                  /\ \A n \in DOMAIN scene.commands[i].glyphs :
                        scene.commands[i].glyphs[n].id \in original.outlines
                            => scene.commands[i].glyphs[n].id
                                  \in Unpacked(archive.val.fonts[k]).outlines
    /\ RoundTripped =>
          \A i \in FontCmds(scene.commands) :
              /\ restored.val.commands[i].glyphs = scene.commands[i].glyphs
              /\ \A n \in DOMAIN scene.commands[i].glyphs :
                    scene.commands[i].glyphs[n].id
                        \in scene.commands[i].font_data.data.bytes.outlines
                    => scene.commands[i].glyphs[n].id
                          \in restored.val.commands[i].font_data.data.bytes.outlines

C19_Witness ==
    /\ RoundTripped
    /\ config.subset_fonts
    /\ \E i \in FontCmds(scene.commands) :
          /\ \E n \in DOMAIN scene.commands[i].glyphs : scene.commands[i].glyphs[n].id = 43
          /\ 43 \in restored.val.commands[i].font_data.data.bytes.outlines
          /\ 50 \notin restored.val.commands[i].font_data.data.bytes.outlines

\* C20 as stated: when a glyph run's font has malformed data (and every image
\* of the recording can be stored), from_scene fails with FontProcessing under
\* every SerializeConfig.
C20_MalformedFontRefused ==
    (/\ pc # "recording"
     /\ \E i \in FontCmds(scene.commands) :
           scene.commands[i].font_data.data.bytes.enc # "sfnt"
     /\ \A i \in ImageCmds(scene.commands) :
           Supported(ctx.image_data[scene.commands[i].brush.image.id].format))
        => IsErr(archive, "FontProcessing")

\* ------------------------------------------------------- reading, continued
\* The variants of ArchiveError.
ArchiveErrorKinds ==
    {"Io", "Json", "Zip", "Image", "FontProcessing", "InvalidFormat", "ResourceNotFound",
     "UnsupportedVersion"}

\* The container read gets as far as the resource entries, finds every listed
\* entry and can decode it, and some entry does not re-hash to its digest.
DigestDisagrees ==
    /\ pc = "loaded"
    /\ ManifestName \in Names(zip) /\ CommandsName \in Names(zip)
    /\ IsOk(ParseManifest(by_name(zip, ManifestName).val))
    /\ IsOk(ParseCommands(by_name(zip, CommandsName).val))
    /\ LET m == by_name(zip, ManifestName).val.body
           listed == Range(m.images) \cup Range(m.fonts)
       IN  /\ m.version = CURRENT_VERSION
           /\ \A meta \in listed :
                 /\ meta.path \in Names(zip)
                 /\ meta.kind = "image" => by_name(zip, meta.path).val.type = "png"
           /\ \E meta \in listed : ~StoredIntact(zip, meta)

C22_BuildsIndependent ==
    \A b \in Builders :
        LET B == builds[b] IN
        /\ B.state = "collecting" =>
              LET alone == collect_commands(B.cfg, NewCollector, B.ctx,
                               SubSeq(B.scene.commands, 1, Len(B.out)), << >>)
              IN  B.col = alone.col /\ B.out = alone.commands
        /\ B.state = "done" =>
              /\ B.result = from_scene(B.ctx, B.scene, B.cfg)
              /\ IsOk(B.result) =>
                    \A i \in ImageCmds(B.scene.commands) :
                        (\A j \in ImageCmds(B.scene.commands) : i <= j)
                            => B.result.val.commands[i].brush.image = 0

C22_Witness ==
    /\ builds[1].state = "done"
    /\ builds[1].n = 2
    /\ IsOk(builds[1].result)
    /\ Len(builds[1].result.val.images) = 2
    /\ builds[2].state = "collecting"
    /\ Len(builds[2].out) = 2
    /\ builds[2].col # NewCollector
    /\ builds[2].ctx # builds[1].ctx

\* C23: the version is compared before draw_commands.json or any resource is
\* read: whenever resources.json is present and parses as a manifest whose
\* version is not CURRENT_VERSION, deserialize returns UnsupportedVersion with
\* that version - whether or not draw_commands.json is there or parses, and
\* whether or not the resource entries are there and match their digests.
C23_VersionFirst ==
    (/\ pc \in {"loaded", "restored"}
     /\ ManifestName \in Names(zip)
     /\ IsOk(ParseManifest(by_name(zip, ManifestName).val))
     /\ by_name(zip, ManifestName).val.body.version # CURRENT_VERSION)
        => /\ IsErr(loaded, "UnsupportedVersion")
           /\ loaded.arg = by_name(zip, ManifestName).val.body.version

C23_Witness ==
    /\ pc = "loaded"
    /\ IsErr(loaded, "UnsupportedVersion")
    /\ CommandsName \in Names(zip)
    /\ ~IsOk(ParseCommands(by_name(zip, CommandsName).val))

\* C24: when to_scene returns an error, the context it was given holds exactly
\* the images it held before the call (the read starts from a new, empty
\* context).
C24_FailedReadLeavesContext ==
    (pc = "restored" /\ restored.status = "Err") => restore_ctx = NewContext

GlyphsMappedTo(cmds, out, n, k) ==
    UNION { { cmds[i].glyphs[j].id : j \in DOMAIN cmds[i].glyphs } :
            i \in { i \in 1 .. n : HasFont(cmds[i]) /\ out[i].font_data.resource_id = k - 1 } }

\* C26: with subset_fonts the glyph set of font entry k is, at every step of a
\* build, the union of the glyph IDs of the runs converted so far that were
\* mapped to k (the empty set when those runs have no glyphs), and the font
\* stored for k keeps the outlines of exactly those glyphs and .notdef;
\* without subset_fonts every glyph set stays empty.
C26_GlyphSetIsUnion ==
    \A b \in Builders :
        LET B == builds[b] IN
        (B.state \in {"collecting", "done"}) =>
            /\ \A k \in DOMAIN B.col.fonts.glyph_ids :
                  B.col.fonts.glyph_ids[k]
                      = IF B.cfg.subset_fonts
                        THEN GlyphsMappedTo(B.scene.commands, B.out, Len(B.out), k)
                        ELSE {}
            /\ (B.state = "done" /\ IsOk(B.result) /\ B.cfg.subset_fonts) =>
                  \A k \in DOMAIN B.result.val.fonts :
                      Unpacked(B.result.val.fonts[k]).outlines
                          = (GlyphsMappedTo(B.scene.commands, B.out, Len(B.out), k) \cup {0})
                                \cap B.col.fonts.fonts[k].data.bytes.outlines

C26_Witness ==
    \E b \in Builders :
        /\ builds[b].state = "done"
        /\ IsOk(builds[b].result)
        /\ builds[b].cfg.subset_fonts
        /\ builds[b].col.fonts.glyph_ids = <<{43, 72}, {}>>
        /\ Unpacked(builds[b].result.val.fonts[1]).outlines = {0, 43, 72}
        /\ \E c \in Builders :
              /\ builds[c].state = "done"
              /\ ~builds[c].cfg.subset_fonts
              /\ builds[c].col.fonts.glyph_ids = <<{}, {}>>

\* C27: after from_scene no two manifest entries have the same archive path.
C27_PathsDistinct ==
    Built =>
        LET paths == [i \in DOMAIN archive.val.manifest.images |->
                          archive.val.manifest.images[i].path]
                     \o [i \in DOMAIN archive.val.manifest.fonts |->
                          archive.val.manifest.fonts[i].path]
        IN  \A i, j \in DOMAIN paths : paths[i] = paths[j] => i = j

\* C28: in the scene to_scene restores from an accepted archive, a command
\* that referenced resource ID k holds the payload of the manifest entry whose
\* id field is k, in whatever order the manifest lists its entries.
C28_BoundById ==
    (pc = "restored" /\ IsOk(loaded) /\ IsOk(restored)) =>
        LET a == loaded.val IN
        /\ \A i \in ImageCmds(restored.val.commands) :
              \A j \in DOMAIN a.manifest.images :
                  a.manifest.images[j].id = a.commands[i].brush.image =>
                      LET got == restore_ctx.image_data[restored.val.commands[i].brush.image.id]
                      IN  /\ got.format = a.manifest.images[j].format
                          /\ Ok(got.data) = convert_from_rgba(a.images[j].data,
                                                              a.manifest.images[j].format)
        /\ \A i \in FontCmds(restored.val.commands) :
              \A j \in DOMAIN a.manifest.fonts :
                  a.manifest.fonts[j].id = a.commands[i].font_data.resource_id =>
                      restored.val.commands[i].font_data.data.bytes = Unpacked(a.fonts[j])

\* C29: the archive built (same config) from the scene that an archive A
\* restored into a new context has as many image entries and as many font
\* entries as A, and every command has the resource IDs it has in A.
C29_RearchiveStable ==
    \A b \in Builders :
        LET B == builds[b] IN
        (B.state = "done" /\ B.source # NoResult) =>
            /\ IsOk(B.result)
            /\ Len(B.result.val.images) = Len(B.source.val.images)
            /\ Len(B.result.val.fonts) = Len(B.source.val.fonts)
            /\ Len(B.result.val.manifest.images) = Len(B.source.val.manifest.images)
            /\ Len(B.result.val.manifest.fonts) = Len(B.source.val.manifest.fonts)
            /\ DOMAIN B.result.val.commands = DOMAIN B.source.val.commands
            /\ \A i \in ImageCmds(B.source.val.commands) :
                  B.result.val.commands[i].brush.image = B.source.val.commands[i].brush.image
            /\ \A i \in FontCmds(B.source.val.commands) :
                  B.result.val.commands[i].font_data.resource_id
                      = B.source.val.commands[i].font_data.resource_id

C29_Witness ==
    \E b \in Builders :
        /\ builds[b].state = "done"
        /\ builds[b].source # NoResult
        /\ IsOk(builds[b].result)
        /\ Len(builds[b].result.val.fonts) = 2
        /\ Len(builds[b].result.val.images) = 1
        /\ builds[b].result.val.commands[1].font_data.resource_id = 0
        /\ builds[b].result.val.commands[2].font_data.resource_id = 1
        /\ builds[b].result.val.commands[3].font_data.resource_id = 0

\* C30: over any sequence of register_image and unregister_resource calls on
\* one context, every live ID is below the counter; a registration uses the
\* counter's value - an ID no earlier registration used, since the counter only
\* grows - adds exactly that ID with the registered image and keeps every other
\* entry; an unregistration removes exactly one live ID, keeps the other
\* entries, and leaves the counter alone.
C30_IdsNeverReused ==
    /\ [](DOMAIN ctx.image_data \subseteq 0 .. (ctx.next_resource_id - 1))
    /\ [][ctx' # ctx =>
            \/ /\ ctx'.next_resource_id = ctx.next_resource_id + 1
               /\ ctx.next_resource_id \notin DOMAIN ctx.image_data
               /\ DOMAIN ctx'.image_data = DOMAIN ctx.image_data \cup {ctx.next_resource_id}
               /\ ctx'.image_data[ctx.next_resource_id] \in TestImages
               /\ \A k \in DOMAIN ctx.image_data : ctx'.image_data[k] = ctx.image_data[k]
            \/ /\ ctx'.next_resource_id = ctx.next_resource_id
               /\ \E id \in DOMAIN ctx.image_data :
                      DOMAIN ctx'.image_data = DOMAIN ctx.image_data \ {id}
               /\ \A k \in DOMAIN ctx'.image_data : ctx'.image_data[k] = ctx.image_data[k]
         ]_vars

C30_Witness ==
    /\ ctx.next_resource_id = 2
    /\ DOMAIN ctx.image_data = {1}

====
